---- MODULE Spec2Model ----
(***************************************************************************)
(* Model of server/src/main.rs: the passwordless e-mail code login of the  *)
(* CHS Riichi Mahjong backend.  The document store (MongoDB) is the only   *)
(* shared state; every handler is a task that takes one atomic step per    *)
(* store round trip (per .await on the collection).  Spec and AuthSpec run  *)
(* one handler at a time; the actions take the task as a parameter, so a   *)
(* specification over several tasks interleaves the same steps.            *)
(***************************************************************************)
EXTENDS Naturals, Sequences, FiniteSets, TLC

(* ---------------------------------------------------------------- bounds *)

\* Number of requests the clients send in one behaviour of Spec.
MaxRequests == 3
\* Number of requests the clients send in one behaviour of AuthSpec.
MaxAuthRequests == 4
\* Number of requests the clients send in one behaviour of ConcSpec.
MaxConcRequests == 3
\* Last instant of the wall clock.
MaxTime == 2
\* Resolution of the wall clock: clock ticks per minute.
TicksPerMinute == 2

\* Handler tasks that can be in flight at the same time.
Tasks == {"t1", "t2"}

(* ------------------------------------------------------- values and input *)

\* Option<T>: None is the empty sequence, Some(x) the one-element sequence.
None == <<>>
Some(x) == <<x>>
is_none(o) == o = None
is_some(o) == o # None
unwrap(o) == o[1]

\* E-mail addresses are sequences of characters; two spellings of one address
\* and one other address.
EmailInputs == {<<"a", "@", "x">>, <<"A", "@", "x">>, <<"b", "@", "x">>}

\* The addresses the clients of ConcSpec use: the two spellings of one address.
ConcEmailInputs == {<<"a", "@", "x">>, <<"A", "@", "x">>}

\* char::to_uppercase on the characters the inputs are made of.
UpperChar(c) == CASE c = "a" -> "A"
                  [] c = "b" -> "B"
                  [] c = "x" -> "X"
                  [] OTHER -> c

\* A lookup that keeps the spelling the client sent.
to_uppercase_as_sent(s) == s

\* str::to_uppercase
to_uppercase(s) == [i \in DOMAIN s |-> UpperChar(s[i])]

\* The strings generate_code can return (7 alphanumeric characters, random:
\* two calls may return the same code).
Codes == {"c1AAAAA", "c2BBBBB"}

\* ip_address values a client reports.
IpInputs == {"10.0.0.1"}

\* Header values a client can send that are no session id the server issued:
\* the empty string and bytes outside visible ASCII.
ForgedHeaders == {"", "\\x80"}

\* HeaderValue::to_str: Err for bytes outside visible ASCII, else the string.
to_str(h) == IF h = "\\x80" THEN None ELSE Some(h)

\* Uuid::to_string of the n-th uuid the generator hands out.
UuidText == <<"uuid-1", "uuid-2", "uuid-3", "uuid-4", "uuid-5", "uuid-6", "uuid-7", "uuid-8">>
uuid_to_string(n) == UuidText[n]

\* DateTime<Utc>::to_rfc3339: the instant written as whole minutes and the
\* sub-minute remainder, at the clock's full resolution.
to_rfc3339(t) == <<t \div TicksPerMinute, t % TicksPerMinute>>

\* DateTime::parse_from_rfc3339(..).with_timezone(&Utc)
parse_from_rfc3339(s) == s[1] * TicksPerMinute + s[2]

\* Duration::minutes(n)
Duration_minutes(n) == n * TicksPerMinute

(* ------------------------------------------------------------------ state *)

VARIABLES
    users,      \* collection "users": the documents in insertion order
    matches,    \* collection "matches": the documents in insertion order
    clock,      \* Utc::now()
    next_oid,   \* ObjectId::new(): the next fresh object id
    next_uuid,  \* Uuid::new_v4(): the next fresh uuid
    task,       \* per task: where its handler stands and the handler's locals
    nreq,       \* requests accepted so far
    last,       \* the request completed last, with the response it was given
    issued      \* the session ids returned by /login so far, in order

vars == <<users, matches, clock, next_oid, next_uuid, task, nreq, last, issued>>

\* Fields of struct User (what a stored document deserialises to).
UserFields == {"_id", "name", "majsoul_username", "discord_username", "email",
               "session_id", "code", "code_date", "match_history", "avatar"}

\* User::new
User_new(oid, email, code, code_date, match_history) ==
    [_id |-> oid, name |-> None, majsoul_username |-> None, discord_username |-> None,
     email |-> email, session_id |-> None, code |-> code, code_date |-> code_date,
     match_history |-> match_history, avatar |-> None]

\* serde: a stored document read as a User (fields of the document that the
\* struct does not have, such as ip_address, are dropped).
as_User(d) == [k \in UserFields |-> d[k]]

\* collection.find_one(doc! { "email": email }): the first document that matches.
find_one_by_email(coll, email) ==
    LET hits == {i \in DOMAIN coll : coll[i].email = email}
    IN  IF hits = {} THEN None
        ELSE Some(as_User(coll[CHOOSE i \in hits : \A j \in hits : i <= j]))

\* collection.find_one(doc! { "_id": id })
find_one_by_id(coll, id) ==
    LET hits == {i \in DOMAIN coll : coll[i]._id = id}
    IN  IF hits = {} THEN None
        ELSE Some(as_User(coll[CHOOSE i \in hits : \A j \in hits : i <= j]))

\* collection.update_one(doc! { "email": email }, doc! { "$set": fields }):
\* the first document that matches gets the fields, the others are untouched.
update_one_by_email(coll, email, fields) ==
    LET hits == {i \in DOMAIN coll : coll[i].email = email}
    IN  IF hits = {} THEN coll
        ELSE LET i == CHOOSE k \in hits : \A j \in hits : k <= j
             IN  [coll EXCEPT ![i] = fields @@ coll[i]]

\* collection.insert_one
insert_one(coll, d) == Append(coll, d)

idle == [pc |-> "idle"]

\* The record of a completed request: what was asked, what the handler saw
\* and what it answered.
Response(op, info, status, body, seen) ==
    [n |-> last.n + 1, op |-> op, info |-> info, status |-> status, body |-> body,
     seen |-> seen]

Init ==
    /\ users = <<>>
    /\ matches = <<>>
    /\ clock = 0
    /\ next_oid = 1
    /\ next_uuid = 1
    /\ task = [t \in Tasks |-> idle]
    /\ nreq = 0
    /\ last = [n |-> 0, op |-> "none", info |-> None, status |-> 0, body |-> None,
               seen |-> None]
    /\ issued = <<>>

\* Time passes.
Tick ==
    /\ clock < MaxTime
    /\ clock' = clock + 1
    /\ UNCHANGED <<users, matches, next_oid, next_uuid, task, nreq, last, issued>>

(* -------------------------------------------------- /requestcode send_code *)

\* generate_code
generate_code == Codes

\* send_code up to its first store round trip: the code and the time stamp
\* are taken before the lookup is sent.
send_code_begin(t, email) ==
    /\ task[t].pc = "idle"
    /\ \E code \in generate_code :
         task' = [task EXCEPT ![t] =
                    [pc |-> "send_code_find", info |-> [email |-> email],
                     code |-> code, code_date |-> to_rfc3339(clock)]]
    /\ nreq' = nreq + 1
    /\ UNCHANGED <<users, matches, clock, next_oid, next_uuid, last, issued>>

\* collection.find_one(email.to_uppercase())
send_code_find(t) ==
    /\ task[t].pc = "send_code_find"
    /\ task' = [task EXCEPT ![t] =
                  [pc |-> "send_code_write", info |-> task[t].info,
                   code |-> task[t].code, code_date |-> task[t].code_date,
                   existing |-> find_one_by_email(users, to_uppercase(task[t].info.email))]]
    /\ UNCHANGED <<users, matches, clock, next_oid, next_uuid, nreq, last, issued>>

\* A mutation that also ends the session of the user it finds.
send_code_store_reset(coll, oid, info, code, code_date, existing) ==
    IF ~is_none(existing)
    THEN update_one_by_email(coll, to_uppercase(info.email),
                             [code |-> code, code_date |-> code_date, session_id |-> None])
    ELSE insert_one(coll, User_new(oid, to_uppercase(info.email), code, code_date, <<>>))

\* A mutation that stores a code generated anew, not the one that is mailed.
send_code_store_other_code(coll, oid, info, code, code_date, existing) ==
    LET other == CHOOSE c \in Codes : c # code
    IN  IF ~is_none(existing)
        THEN update_one_by_email(coll, to_uppercase(info.email),
                                 [code |-> other, code_date |-> code_date])
        ELSE insert_one(coll, User_new(oid, to_uppercase(info.email), other, code_date, <<>>))

\* A mutation that refreshes the code of the user it finds and leaves the
\* time stamp of the code before.
send_code_store_code_only(coll, oid, info, code, code_date, existing) ==
    IF ~is_none(existing)
    THEN update_one_by_email(coll, to_uppercase(info.email), [code |-> code])
    ELSE insert_one(coll, User_new(oid, to_uppercase(info.email), code, code_date, <<>>))

\* The store mutation of send_code: update_one when the lookup found the
\* user, insert_one of User::new otherwise.
send_code_store(coll, oid, info, code, code_date, existing) ==
    IF ~is_none(existing)
    THEN update_one_by_email(coll, to_uppercase(info.email),
                             [code |-> code, code_date |-> code_date])
    ELSE insert_one(coll, User_new(oid, to_uppercase(info.email), code, code_date, <<>>))

send_code_write(t) ==
    /\ task[t].pc = "send_code_write"
    /\ users' = send_code_store(users, next_oid, task[t].info, task[t].code,
                                task[t].code_date, task[t].existing)
    /\ next_oid' = IF is_none(task[t].existing) THEN next_oid + 1 ELSE next_oid
    /\ task' = [task EXCEPT ![t] =
                  [pc |-> "send_email", info |-> task[t].info, code |-> task[t].code]]
    /\ UNCHANGED <<matches, clock, next_uuid, nreq, last, issued>>

\* What mailer.send can return.
MailerResults == {"Ok", "Err"}

\* send_email: the result of mailer.send is printed, and Ok(()) is returned
\* either way.
send_email(sent) == "Ok"

\* send_code after the store mutation: send_email(..).expect(..), then 200.
send_code_respond(result) ==
    IF result = "Ok" THEN [status |-> 200, body |-> "Sent."]
    ELSE [status |-> 500, body |-> "panic: Failed to send email"]

\* A hand-off that takes the code back out of the store when mailer.send
\* fails.
send_code_mail_rollback(t) ==
    /\ task[t].pc = "send_email"
    /\ \E sent \in MailerResults :
         LET r == send_code_respond(send_email(sent))
         IN  /\ last' = Response("send_code", task[t].info, r.status, r.body,
                                 [to |-> task[t].info.email, code |-> task[t].code,
                                  mailer |-> sent])
             /\ users' = IF sent = "Err"
                         THEN update_one_by_email(users, to_uppercase(task[t].info.email),
                                                  [code |-> ""])
                         ELSE users
    /\ task' = [task EXCEPT ![t] = idle]
    /\ UNCHANGED <<matches, clock, next_oid, next_uuid, nreq, issued>>

send_code_mail(t) ==
    /\ task[t].pc = "send_email"
    /\ \E sent \in MailerResults :
         LET r == send_code_respond(send_email(sent))
         IN  last' = Response("send_code", task[t].info, r.status, r.body,
                              [to |-> task[t].info.email, code |-> task[t].code,
                               mailer |-> sent])
    /\ task' = [task EXCEPT ![t] = idle]
    /\ UNCHANGED <<users, matches, clock, next_oid, next_uuid, nreq, issued>>

(* ------------------------------------------------------------ /login login *)

\* A lookup that creates the user it does not find, as send_code does,
\* instead of answering 404.
login_find_upsert(t, email, code, ip) ==
    /\ task[t].pc = "idle"
    /\ nreq' = nreq + 1
    /\ LET info == [email |-> email, code |-> code, ip_address |-> ip]
           existing == find_one_by_email(users, to_uppercase(email))
           user == User_new(next_oid, to_uppercase(email), code, to_rfc3339(clock), <<>>)
       IN  /\ users' = IF is_none(existing) THEN insert_one(users, user) ELSE users
           /\ next_oid' = IF is_none(existing) THEN next_oid + 1 ELSE next_oid
           /\ task' = [task EXCEPT ![t] =
                         [pc |-> "login_check", info |-> info,
                          some_existing |-> IF is_none(existing) THEN user
                                            ELSE unwrap(existing)]]
    /\ UNCHANGED <<matches, clock, next_uuid, last, issued>>

\* login's lookup: 404 when there is no such user.
login_find(t, email, code, ip) ==
    /\ task[t].pc = "idle"
    /\ nreq' = nreq + 1
    /\ LET info == [email |-> email, code |-> code, ip_address |-> ip]
           existing == find_one_by_email(users, to_uppercase(email))
       IN  IF is_none(existing)
           THEN /\ last' = Response("login", info, 404, [message |-> "User not found"],
                                    [existing |-> None, now |-> None])
                /\ task' = task
           ELSE /\ task' = [task EXCEPT ![t] =
                              [pc |-> "login_check", info |-> info,
                               some_existing |-> unwrap(existing)]]
                /\ last' = last
    /\ UNCHANGED <<users, matches, clock, next_oid, next_uuid, issued>>

\* code_date_expiration
code_date_expiration(some_existing) ==
    parse_from_rfc3339(some_existing.code_date) + Duration_minutes(1)

\* A test that still accepts the code at the instant it expires.
login_reject_late(some_existing, info, now) ==
    IF some_existing.code # info.code \/ now > code_date_expiration(some_existing)
    THEN Some(IF some_existing.code # info.code THEN "Invalid" ELSE "Expired")
    ELSE None

\* A test that reports the expiry before the mismatch.
login_reject_expired_first(some_existing, info, now) ==
    IF some_existing.code # info.code \/ now >= code_date_expiration(some_existing)
    THEN Some(IF now >= code_date_expiration(some_existing) THEN "Expired" ELSE "Invalid")
    ELSE None

\* The test of login: None when the code is accepted, else the reason
\* of the 403.
login_reject(some_existing, info, now) ==
    IF some_existing.code # info.code \/ now >= code_date_expiration(some_existing)
    THEN Some(IF some_existing.code # info.code THEN "Invalid" ELSE "Expired")
    ELSE None

\* A generator that hands out the uuid it handed out before.
new_v4_repeat == IF next_uuid > 1 THEN next_uuid - 1 ELSE next_uuid

\* Uuid::new_v4
new_v4 == next_uuid

login_check(t) ==
    /\ task[t].pc = "login_check"
    /\ LET info == task[t].info
           some_existing == task[t].some_existing
           now == clock
           reason == login_reject(some_existing, info, now)
       IN  IF is_some(reason)
           THEN /\ last' = Response("login", info, 403,
                                    [message |-> <<unwrap(reason), "authorization code">>],
                                    [existing |-> Some(some_existing), now |-> Some(now)])
                /\ task' = [task EXCEPT ![t] = idle]
                /\ next_uuid' = next_uuid
           ELSE /\ task' = [task EXCEPT ![t] =
                              [pc |-> "login_update", info |-> info,
                               some_existing |-> some_existing, now |-> now,
                               session_id |-> new_v4]]
                /\ next_uuid' = next_uuid + 1
                /\ last' = last
    /\ UNCHANGED <<users, matches, clock, next_oid, nreq, issued>>

\* A mutation that also uses the code up.
login_store_consume(coll, info, session_id) ==
    update_one_by_email(coll, to_uppercase(info.email),
                        [session_id |-> Some(uuid_to_string(session_id)),
                         ip_address |-> info.ip_address, code |-> ""])

\* The store mutation of login.
login_store(coll, info, session_id) ==
    update_one_by_email(coll, to_uppercase(info.email),
                        [session_id |-> Some(uuid_to_string(session_id)),
                         ip_address |-> info.ip_address])

login_update(t) ==
    /\ task[t].pc = "login_update"
    /\ users' = login_store(users, task[t].info, task[t].session_id)
    /\ last' = Response("login", task[t].info, 200,
                        [session_id |-> uuid_to_string(task[t].session_id)],
                        [existing |-> Some(task[t].some_existing),
                         now |-> Some(task[t].now)])
    /\ issued' = Append(issued, [email |-> to_uppercase(task[t].info.email),
                                 session_id |-> uuid_to_string(task[t].session_id)])
    /\ task' = [task EXCEPT ![t] = idle]
    /\ UNCHANGED <<matches, clock, next_oid, next_uuid, nreq>>

(* ------------------------------------------- the check of protected routes *)

\* A check that compares the optional header with the optional stored id, so
\* that a request without the header matches a user without a session.
check_authentication_option_eq(header, session_id) ==
    IF is_some(header)
    THEN LET session_id_input == to_str(unwrap(header))
         IN  ~is_none(session_id_input) /\ session_id = session_id
    ELSE session_id = None

\* check_authentication(req, session_id): header is the request's
\* Authentication-Session-Id header, None when the request has none.
check_authentication(header, session_id) ==
    IF is_some(header)
    THEN LET session_id_input == to_str(unwrap(header))
         IN  ~is_none(session_id_input) /\ session_id = session_id
    ELSE FALSE

\* Result<User, HttpResponse>
Ok(user) == [ok |-> TRUE, user |-> user]
Err(status, message) == [ok |-> FALSE, status |-> status, body |-> [message |-> message]]

\* get_user_internal up to the authentication check (its lookup is the one
\* store round trip before the check).
get_user_internal(coll, header, email) ==
    LET existing == find_one_by_email(coll, to_uppercase(email))
    IN  IF is_none(existing) THEN Err(404, "User not found")
        ELSE IF ~check_authentication(header, unwrap(existing).session_id)
             THEN Err(403, "User not authenticated")
             ELSE Ok(unwrap(existing))

\* get_user_internal_by_id
get_user_internal_by_id(coll, header, id) ==
    LET existing == find_one_by_id(coll, id)
    IN  IF is_none(existing) THEN Err(404, "User not found")
        ELSE IF ~check_authentication(header, unwrap(existing).session_id)
             THEN Err(403, "User not authenticated")
             ELSE Ok(unwrap(existing))

\* What the handler saw of the store when it ran the check.
Seen(coll, email) == [existing |-> find_one_by_email(coll, to_uppercase(email))]
SeenById(coll, id) == [existing |-> find_one_by_id(coll, id)]

\* The headers a client can send: none, a forged value, or a session id
\* that /login returned to some client before.
HeaderInputs ==
    {None} \cup {Some(h) : h \in ForgedHeaders}
           \cup {Some(issued[i].session_id) : i \in DOMAIN issued}

\* A view that returns the user as stored.
User_details_as_stored(user) == user

\* User::details
User_details(user) ==
    [_id |-> user._id, name |-> user.name, majsoul_username |-> user.majsoul_username,
     discord_username |-> user.discord_username, email |-> user.email,
     session_id |-> None, code |-> "", code_date |-> "",
     match_history |-> user.match_history, avatar |-> user.avatar]

\* User::member_view
User_member_view(user) ==
    [_id |-> user._id, name |-> user.name, majsoul_username |-> None,
     discord_username |-> None, email |-> user.email,
     session_id |-> None, code |-> "", code_date |-> "",
     match_history |-> <<>>, avatar |-> user.avatar]

(* -------------------------------------------------------- /getuser get_user *)

get_user_find(t, email, header) ==
    /\ task[t].pc = "idle"
    /\ nreq' = nreq + 1
    /\ LET info == [email |-> email, header |-> header]
           r == get_user_internal(users, header, email)
       IN  IF r.ok
           THEN /\ task' = [task EXCEPT ![t] =
                              [pc |-> "get_user_matches", info |-> info,
                               some_existing |-> r.user, seen |-> Seen(users, email)]]
                /\ last' = last
           ELSE /\ last' = Response("get_user", info, r.status, r.body, Seen(users, email))
                /\ task' = task
    /\ UNCHANGED <<users, matches, clock, next_oid, next_uuid, issued>>

\* find(doc! { "players": { "$elemMatch": { "id": id } } }) on "matches"
find_matches(coll, id) ==
    SelectSeq(coll, LAMBDA m : \E i \in DOMAIN m.players : m.players[i].id = Some(id))

\* get_user_internal with include_matches, after the check; then 200 with
\* User::details.
get_user_matches(t) ==
    /\ task[t].pc = "get_user_matches"
    /\ LET some_existing == [task[t].some_existing EXCEPT
                               !.match_history = find_matches(matches, task[t].some_existing._id)]
       IN  last' = Response("get_user", task[t].info, 200, User_details(some_existing),
                            task[t].seen)
    /\ task' = [task EXCEPT ![t] = idle]
    /\ UNCHANGED <<users, matches, clock, next_oid, next_uuid, nreq, issued>>

(* ----------------------------------------------- /getmembers get_member_list *)

get_member_list(t) ==
    /\ task[t].pc = "idle"
    /\ nreq' = nreq + 1
    /\ last' = Response("get_member_list", None, 200,
                        [i \in DOMAIN users |-> User_member_view(as_User(users[i]))], None)
    /\ UNCHANGED <<users, matches, clock, next_oid, next_uuid, task, issued>>

(* ------------------------------------- /updateuseravatar update_user_avatar *)

AvatarInputs == {"cat.png"}

update_user_avatar_find(t, email, avatar, header) ==
    /\ task[t].pc = "idle"
    /\ nreq' = nreq + 1
    /\ LET info == [email |-> email, avatar |-> avatar, header |-> header]
           r == get_user_internal(users, header, email)
       IN  IF r.ok
           THEN /\ task' = [task EXCEPT ![t] =
                              [pc |-> "update_user_avatar_write", info |-> info,
                               seen |-> Seen(users, email)]]
                /\ last' = last
           ELSE /\ last' = Response("update_user_avatar", info, r.status, r.body,
                                    Seen(users, email))
                /\ task' = task
    /\ UNCHANGED <<users, matches, clock, next_oid, next_uuid, issued>>

\* The store mutation of update_user_avatar.
update_user_avatar_store(coll, info) ==
    update_one_by_email(coll, to_uppercase(info.email), [avatar |-> Some(info.avatar)])

update_user_avatar_write(t) ==
    /\ task[t].pc = "update_user_avatar_write"
    /\ users' = update_user_avatar_store(users, task[t].info)
    /\ last' = Response("update_user_avatar", task[t].info, 204,
                        [message |-> "User avatar updated"], task[t].seen)
    /\ task' = [task EXCEPT ![t] = idle]
    /\ UNCHANGED <<matches, clock, next_oid, next_uuid, nreq, issued>>

(* --------------------------------------------------- /updateuser update_user *)

\* The profile fields a client can send in the body of /updateuser.
ProfileInputs ==
    {[name |-> n, discord_username |-> Some("ann#1"), majsoul_username |-> Some("annMS")] :
       n \in {None, Some("Ann")}}

update_user_find(t, email, profile, header) ==
    /\ task[t].pc = "idle"
    /\ nreq' = nreq + 1
    /\ LET info == [email |-> email, name |-> profile.name,
                    discord_username |-> profile.discord_username,
                    majsoul_username |-> profile.majsoul_username, header |-> header]
           r == get_user_internal(users, header, email)
       IN  IF r.ok
           THEN /\ task' = [task EXCEPT ![t] =
                              [pc |-> "update_user_write", info |-> info,
                               seen |-> Seen(users, email)]]
                /\ last' = last
           ELSE /\ last' = Response("update_user", info, r.status, r.body,
                                    Seen(users, email))
                /\ task' = task
    /\ UNCHANGED <<users, matches, clock, next_oid, next_uuid, issued>>

\* A mutation that stores the whole User of the request body, the session id
\* the client sent (none) included.
update_user_store_whole(coll, info) ==
    update_one_by_email(coll, to_uppercase(info.email),
                        [name |-> info.name, email |-> to_uppercase(info.email),
                         discord_username |-> info.discord_username,
                         majsoul_username |-> info.majsoul_username,
                         session_id |-> None])

\* The store mutation of update_user.
update_user_store(coll, info) ==
    update_one_by_email(coll, to_uppercase(info.email),
                        [name |-> info.name, email |-> to_uppercase(info.email),
                         discord_username |-> info.discord_username,
                         majsoul_username |-> info.majsoul_username])

update_user_write(t) ==
    /\ task[t].pc = "update_user_write"
    /\ users' = update_user_store(users, task[t].info)
    /\ last' = Response("update_user", task[t].info, 204,
                        [message |-> "User updated"], task[t].seen)
    /\ task' = [task EXCEPT ![t] = idle]
    /\ UNCHANGED <<matches, clock, next_oid, next_uuid, nreq, issued>>

(* ----------------------------------------------------- /savematch save_match *)

\* The matches a client can post: one player, who is a stored user or an
\* object id that no document has.
MatchInputs ==
    {[players |-> <<[id |-> Some(id), unregistered_name |-> None, score |-> 0]>>] :
       id \in 1..next_oid}

save_match_find(t, m, header) ==
    /\ task[t].pc = "idle"
    /\ nreq' = nreq + 1
    /\ LET info == [players |-> m.players, header |-> header]
           id == unwrap(m.players[1].id)
           user == get_user_internal_by_id(users, header, id)
       IN  IF ~user.ok
           THEN /\ last' = Response("save_match", info, 403,
                                    [message |-> "User not authenticated"],
                                    SeenById(users, id))
                /\ task' = task
           ELSE /\ task' = [task EXCEPT ![t] =
                              [pc |-> "save_match_insert", info |-> info,
                               seen |-> SeenById(users, id)]]
                /\ last' = last
    /\ UNCHANGED <<users, matches, clock, next_oid, next_uuid, issued>>

save_match_insert(t) ==
    /\ task[t].pc = "save_match_insert"
    /\ matches' = insert_one(matches, [_id |-> Some(next_oid), players |-> task[t].info.players,
                                       date |-> to_rfc3339(clock)])
    /\ next_oid' = next_oid + 1
    /\ last' = Response("save_match", task[t].info, 204,
                        [message |-> "Match created"], task[t].seen)
    /\ task' = [task EXCEPT ![t] = idle]
    /\ UNCHANGED <<users, clock, next_uuid, nreq, issued>>

(* ---------------------------------------------------------- specifications *)

\* One handler runs at a time in Spec and AuthSpec.
SeqTasks == {"t1"}

\* Spec: clients send up to MaxRequests requests to any route, one after the
\* other; time passes between any two steps of a handler.
Next ==
    \/ Tick
    \/ /\ nreq < MaxRequests
       /\ \E t \in SeqTasks, email \in EmailInputs : send_code_begin(t, email)
    \/ \E t \in SeqTasks : send_code_find(t)
    \/ \E t \in SeqTasks : send_code_write(t)
    \/ \E t \in SeqTasks : send_code_mail(t)
    \/ /\ nreq < MaxRequests
       /\ \E t \in SeqTasks, email \in EmailInputs, code \in Codes, ip \in IpInputs :
            login_find(t, email, code, ip)
    \/ \E t \in SeqTasks : login_check(t)
    \/ \E t \in SeqTasks : login_update(t)
    \/ /\ nreq < MaxRequests
       /\ \E t \in SeqTasks, email \in EmailInputs, header \in HeaderInputs :
            get_user_find(t, email, header)
    \/ \E t \in SeqTasks : get_user_matches(t)
    \/ /\ nreq < MaxRequests
       /\ \E t \in SeqTasks : get_member_list(t)
    \/ /\ nreq < MaxRequests
       /\ \E t \in SeqTasks, email \in EmailInputs, avatar \in AvatarInputs,
             header \in HeaderInputs : update_user_avatar_find(t, email, avatar, header)
    \/ \E t \in SeqTasks : update_user_avatar_write(t)
    \/ /\ nreq < MaxRequests
       /\ \E t \in SeqTasks, email \in EmailInputs, profile \in ProfileInputs,
             header \in HeaderInputs : update_user_find(t, email, profile, header)
    \/ \E t \in SeqTasks : update_user_write(t)
    \/ /\ nreq < MaxRequests
       /\ \E t \in SeqTasks, m \in MatchInputs, header \in HeaderInputs :
            save_match_find(t, m, header)
    \/ \E t \in SeqTasks : save_match_insert(t)

Spec == Init /\ [][Next]_vars

\* AuthSpec: clients send up to MaxAuthRequests requests to /requestcode and
\* /login only, one after the other.
AuthNext ==
    \/ Tick
    \/ /\ nreq < MaxAuthRequests
       /\ \E t \in SeqTasks, email \in EmailInputs : send_code_begin(t, email)
    \/ \E t \in SeqTasks : send_code_find(t)
    \/ \E t \in SeqTasks : send_code_write(t)
    \/ \E t \in SeqTasks : send_code_mail(t)
    \/ /\ nreq < MaxAuthRequests
       /\ \E t \in SeqTasks, email \in EmailInputs, code \in Codes, ip \in IpInputs :
            login_find(t, email, code, ip)
    \/ \E t \in SeqTasks : login_check(t)
    \/ \E t \in SeqTasks : login_update(t)

AuthSpec == Init /\ [][AuthNext]_vars

\* The task a new request is handed to: the first one that runs no handler
\* (which of the idle tasks takes a request makes no difference).
FreeTask(t) ==
    /\ task[t].pc = "idle"
    /\ \A u \in Tasks : (task[u].pc = "idle") => (t = u \/ t = "t1")

\* ConcSpec: clients send up to MaxConcRequests requests to /requestcode and
\* /login, and the handlers of two requests run at the same time: their
\* store round trips interleave in every order.
ConcNext ==
    \/ Tick
    \/ /\ nreq < MaxConcRequests
       /\ \E t \in Tasks, email \in ConcEmailInputs :
            FreeTask(t) /\ send_code_begin(t, email)
    \/ \E t \in Tasks : send_code_find(t)
    \/ \E t \in Tasks : send_code_write(t)
    \/ \E t \in Tasks : send_code_mail(t)
    \/ /\ nreq < MaxConcRequests
       /\ \E t \in Tasks, email \in ConcEmailInputs, code \in Codes, ip \in IpInputs :
            FreeTask(t) /\ login_find(t, email, code, ip)
    \/ \E t \in Tasks : login_check(t)
    \/ \E t \in Tasks : login_update(t)

ConcSpec == Init /\ [][ConcNext]_vars

(* ------------------------------------------------------------------ claims *)

\* Vocabulary of the claims.

\* Two spellings of one address: equal up to the case of the letters.
LowerChar(c) == CASE c = "A" -> "a"
                  [] c = "B" -> "b"
                  [] c = "X" -> "x"
                  [] OTHER -> c
SameAddress(e1, e2) ==
    /\ Len(e1) = Len(e2)
    /\ \A i \in DOMAIN e1 : LowerChar(e1[i]) = LowerChar(e2[i])

\* The store holds no identity record for the address.
NoRecord(coll, email) == \A i \in DOMAIN coll : ~SameAddress(coll[i].email, email)

\* The stored record of the address (the first, should there be several).
RecordOf(coll, email) ==
    coll[CHOOSE i \in DOMAIN coll :
           /\ SameAddress(coll[i].email, email)
           /\ \A j \in DOMAIN coll : SameAddress(coll[j].email, email) => i <= j]

\* The instant at which the code of a record was issued.
IssuedAt(user) == CHOOSE T \in 0..MaxTime : to_rfc3339(T) = user.code_date

\* 60 seconds on the clock.
SixtySeconds == TicksPerMinute

ProtectedReads == {"get_user"}
ProtectedWrites == {"update_user", "update_user_avatar", "save_match"}
ProtectedOps == ProtectedReads \cup ProtectedWrites

\* The last request was a protected one that addressed an existing identity.
ProtectedOnExisting == last.op \in ProtectedOps /\ is_some(last.seen.existing)

\* The request check admitted the last request.
Admitted == last.status \in {200, 204}

\* The tokens returned by successful authenticate calls for the address, in order.
TokensOf(email) ==
    SelectSeq(issued, LAMBDA r : SameAddress(r.email, email))

\* The last request is an answered /login that found the identity.
LoginOnExisting == last.op = "login" /\ is_some(last.seen.existing)

\* C1 (as claimed): the request check admits (e, t) if and only if t is the
\* token returned by the most recent successful authenticate for e; an older
\* token and a token never issued for e are rejected.
C1_AdmitsOnlyMostRecentToken ==
    ProtectedOnExisting =>
        LET e == unwrap(last.seen.existing).email
            tokens == TokensOf(e)
        IN  Admitted <=> /\ is_some(last.info.header)
                         /\ tokens # <<>>
                         /\ unwrap(last.info.header) = tokens[Len(tokens)].session_id

\* C2 (as claimed): for an identity whose stored session_token is absent the
\* request check is false for every presented token, the empty string
\* included, so no protected operation on it is admitted.
C2_NoSessionNeverAdmitted ==
    (ProtectedOnExisting /\ is_none(unwrap(last.seen.existing).session_id))
        => last.status = 403

\* C3 (as claimed): a protected write to an existing identity whose header is
\* absent or differs from the stored session token answers 403 and leaves
\* every stored record unchanged.
C3_RejectedWriteChangesNothing ==
    [][ ( /\ last'.n = last.n + 1
          /\ last'.op \in ProtectedWrites
          /\ is_some(last'.seen.existing)
          /\ \/ is_none(last'.info.header)
             \/ last'.info.header # unwrap(last'.seen.existing).session_id )
        => (last'.status = 403 /\ users' = users /\ matches' = matches) ]_vars

\* C4: a request without the Authentication-Session-Id header is never
\* admitted, whatever session token the identity has stored: it is answered
\* 403 when the identity exists, and no handler gets past the check with it.
C4_NoHeaderNeverAdmitted ==
    /\ (last.op \in ProtectedOps /\ is_none(last.info.header))
          => /\ ~Admitted
             /\ is_some(last.seen.existing) => last.status = 403
    /\ \A t \in Tasks :
          task[t].pc \in {"get_user_matches", "update_user_write",
                          "update_user_avatar_write", "save_match_insert"}
             => is_some(task[t].info.header)

\* C4 witness: a request without the header, addressed to an identity that
\* has a session token stored, was answered 403.
C4_Witness ==
    /\ ProtectedOnExisting
    /\ is_none(last.info.header)
    /\ is_some(unwrap(last.seen.existing).session_id)
    /\ last.status = 403

\* C5: authenticate with the code issued at T succeeds when evaluated
\* strictly before T + 60s; at or after T + 60s it fails with 403 'Expired
\* authorization code' and the stored session token stays what it was.
C5_CodeWindow ==
    (LoginOnExisting /\ last.info.code = unwrap(last.seen.existing).code) =>
        LET existing == unwrap(last.seen.existing)
            now == unwrap(last.seen.now)
        IN  IF now < IssuedAt(existing) + SixtySeconds
            THEN /\ last.status = 200
                 /\ RecordOf(users, last.info.email).session_id
                        = Some(last.body.session_id)
            ELSE /\ last.status = 403
                 /\ last.body.message = <<"Expired", "authorization code">>
                 /\ RecordOf(users, last.info.email).session_id = existing.session_id

\* C5 witness: the code was accepted once before the boundary, and then
\* refused as expired at the very instant T + 60s.
C5_Witness ==
    /\ LoginOnExisting
    /\ last.info.code = unwrap(last.seen.existing).code
    /\ unwrap(last.seen.now) = IssuedAt(unwrap(last.seen.existing)) + SixtySeconds
    /\ last.status = 403
    /\ TokensOf(last.info.email) # <<>>

\* C6: authenticate with a code other than the stored one fails with 403
\* 'Invalid authorization code' inside and outside the window: a code that
\* is both wrong and expired is reported Invalid, and nothing is stored.
C6_WrongCodeIsInvalid ==
    (LoginOnExisting /\ last.info.code # unwrap(last.seen.existing).code) =>
        /\ last.status = 403
        /\ last.body.message = <<"Invalid", "authorization code">>
        /\ RecordOf(users, last.info.email).session_id
               = unwrap(last.seen.existing).session_id

\* C6 witness: a wrong code was refused as Invalid after the window closed.
C6_Witness ==
    /\ LoginOnExisting
    /\ last.info.code # unwrap(last.seen.existing).code
    /\ unwrap(last.seen.now) >= IssuedAt(unwrap(last.seen.existing)) + SixtySeconds
    /\ last.body.message = <<"Invalid", "authorization code">>

\* A /login for the address the last request, a /requestcode, issued a code
\* to, with that code: task t is running it.
LoginRightAfterIssue(t) ==
    /\ last.op = "send_code"
    /\ task[t].pc \in {"login_check", "login_update"}
    /\ SameAddress(task[t].info.email, last.info.email)
    /\ task[t].info.code = last.seen.code

\* C7: issue_code(e) followed immediately by authenticate(e, current_code),
\* before the window closes, succeeds and returns a non-empty token that
\* differs from every token issued for e before.
C7_IssueThenAuthenticate ==
    [][ \A t \in Tasks :
          ( /\ LoginRightAfterIssue(t)
            /\ last'.n = last.n + 1
            /\ unwrap(last'.seen.now) < IssuedAt(unwrap(last'.seen.existing)) + SixtySeconds )
          => /\ last'.op = "login"
             /\ last'.status = 200
             /\ last'.body.session_id # ""
             /\ \A i \in DOMAIN issued :
                   SameAddress(issued[i].email, last'.info.email)
                      => issued[i].session_id # last'.body.session_id ]_vars

\* C7 witness: /login runs right after /requestcode for an address that was
\* given a token before, and has passed the test of the code.
C7_Witness ==
    /\ LoginRightAfterIssue("t1")
    /\ task["t1"].pc = "login_update"
    /\ TokensOf(last.info.email) # <<>>

\* C8 (as claimed): issue_code fails, instead of answering 200, whenever the
\* notification collaborator cannot send the code.
C8_DeliveryFailureFails ==
    (last.op = "send_code" /\ last.seen.mailer = "Err") => last.status # 200

\* A /login is accepted in this step by task t, for this address.
LoginAccepted(t, email) ==
    /\ task[t].pc = "idle"
    /\ nreq' = nreq + 1
    /\ \/ task'[t].pc = "login_check" /\ task'[t].info.email = email
       \/ last'.n = last.n + 1 /\ last'.op = "login" /\ last'.info.email = email

\* C9: authenticate for an address that has no identity record answers 404
\* whatever the code, creates no record and writes no session token.
C9_UnknownEmailNotFound ==
    [][ \A t \in Tasks, email \in EmailInputs :
          (LoginAccepted(t, email) /\ NoRecord(users, email))
          => /\ last'.n = last.n + 1
             /\ last'.op = "login"
             /\ last'.status = 404
             /\ users' = users
             /\ issued' = issued
             /\ task'[t].pc = "idle" ]_vars

\* C9 witness: a /login for an unknown address was answered 404 while the
\* store holds the record of another address.
C9_Witness ==
    /\ last.op = "login"
    /\ last.status = 404
    /\ users # <<>>
    /\ NoRecord(users, last.info.email)

\* The requests that look the identity up by the e-mail address sent.
EmailOps == {"login", "get_user", "update_user", "update_user_avatar"}

\* C10: the spellings of one address name one identity record: the store
\* holds one record per address, every lookup by e-mail finds the record of
\* the address however it is spelled, and issue_code(e1) followed by
\* authenticate(e2, code) with e2 another spelling of e1 succeeds.
C10_CaseInsensitiveEmail ==
    /\ [](\A i, j \in DOMAIN users :
            SameAddress(users[i].email, users[j].email) => i = j)
    /\ [][ (last'.n = last.n + 1 /\ last'.op \in EmailOps) =>
              IF is_none(last'.seen.existing)
              THEN NoRecord(users, last'.info.email)
              ELSE /\ SameAddress(unwrap(last'.seen.existing).email, last'.info.email)
                   /\ unwrap(last'.seen.existing)._id
                         = RecordOf(users, last'.info.email)._id ]_vars
    /\ [][ \A t \in Tasks :
             ( /\ LoginRightAfterIssue(t)
               /\ task[t].info.email # last.info.email
               /\ last'.n = last.n + 1
               /\ unwrap(last'.seen.now)
                     < IssuedAt(unwrap(last'.seen.existing)) + SixtySeconds )
             => last'.status = 200 ]_vars

\* C10 witness: a code was requested under one spelling, and /login under
\* the other spelling of the address has passed the test of the code.
C10_Witness ==
    /\ LoginRightAfterIssue("t1")
    /\ task["t1"].info.email # last.info.email
    /\ task["t1"].pc = "login_update"
    /\ Len(users) = 1

\* Task t is at the store mutation of send_code and its lookup found the user.
IssueOnExisting(t) == task[t].pc = "send_code_write" /\ is_some(task[t].existing)

\* The fields of a stored document other than the code and its time stamp are
\* the same in d1 and d2.
SameButCode(d1, d2) ==
    /\ DOMAIN d1 = DOMAIN d2
    /\ \A k \in DOMAIN d1 \ {"code", "code_date"} : d1[k] = d2[k]

\* C11: issue_code on an existing identity changes only current_code and
\* code_issued_at of its record: the session token and the profile fields stay,
\* no record is added, and every header the request check admitted for the
\* identity before is admitted after.
C11_IssueKeepsSession ==
    [][ \A t \in Tasks :
          (IssueOnExisting(t) /\ task'[t].pc = "send_email") =>
             /\ Len(users') = Len(users)
             /\ \A i \in DOMAIN users :
                   /\ SameButCode(users[i], users'[i])
                   /\ ~SameAddress(users[i].email, task[t].info.email)
                         => users'[i] = users[i]
                   /\ \A h \in HeaderInputs :
                         check_authentication(h, users[i].session_id)
                            => check_authentication(h, users'[i].session_id)
             /\ RecordOf(users', task[t].info.email).code = task[t].code
             /\ RecordOf(users', task[t].info.email).code_date = task[t].code_date ]_vars

\* C11 witness: issue_code has stored a new code for an identity that holds a
\* session token, and the token is still stored.
C11_Witness ==
    /\ task["t1"].pc = "send_email"
    /\ ~NoRecord(users, task["t1"].info.email)
    /\ LET r == RecordOf(users, task["t1"].info.email)
       IN  /\ is_some(r.session_id)
           /\ r.code = task["t1"].code
           /\ \E i \in DOMAIN issued : Some(issued[i].session_id) = r.session_id
           /\ IssuedAt(r) > 0

\* C12 (as claimed): under any interleaving of concurrent issue_code calls for
\* one e-mail address the store never holds more than one identity record
\* for the address.
C12_OneRecordPerEmail ==
    \A i, j \in DOMAIN users :
        SameAddress(users[i].email, users[j].email) => i = j

\* The step answers a request.
Answers == last'.n = last.n + 1

\* C13: the stored session token changes only in a successful authenticate,
\* and the stored code and its time stamp only in the store mutation of
\* issue_code; a failed authenticate, a protected read, update_user and
\* update_user_avatar leave all three as they were, and only issue_code
\* adds a record.
C13_SessionOnlyByAuthenticate ==
    [][ /\ \A i \in DOMAIN users :
             /\ i \in DOMAIN users'
             /\ users'[i].session_id # users[i].session_id
                   => /\ Answers /\ last'.op = "login" /\ last'.status = 200
                      /\ users'[i].session_id = Some(last'.body.session_id)
             /\ (users'[i].code # users[i].code \/ users'[i].code_date # users[i].code_date)
                   => \E t \in Tasks : task[t].pc = "send_code_write"
                                         /\ task'[t].pc = "send_email"
        /\ Len(users') # Len(users)
             => \E t \in Tasks : task[t].pc = "send_code_write"
                                   /\ task'[t].pc = "send_email"
        /\ (Answers /\ ~(last'.op = "login" /\ last'.status = 200))
             => \A i \in DOMAIN users :
                   /\ users'[i].session_id = users[i].session_id
                   /\ users'[i].code = users[i].code
                   /\ users'[i].code_date = users[i].code_date ]_vars

\* C13 witness: update_user has written the profile of an identity that holds
\* a session token, and the token, the code and its time stamp are as the
\* handler found them.
C13_Witness ==
    /\ last.op = "update_user"
    /\ last.status = 204
    /\ is_some(last.seen.existing)
    /\ is_some(unwrap(last.seen.existing).session_id)
    /\ LET r == RecordOf(users, last.info.email)
           e == unwrap(last.seen.existing)
       IN  /\ r.name # e.name
           /\ r.session_id = e.session_id
           /\ r.code = e.code
           /\ r.code_date = e.code_date

\* C14: when the notification collaborator fails to send, the store mutation
\* of that issue_code stays: the record holds the code and the time stamp the
\* call wrote, and an authenticate with that code that follows inside the
\* window succeeds.
C14_UndeliveredCodeStays ==
    [][ \A t \in Tasks :
          /\ (task[t].pc = "send_code_write" /\ task'[t].pc = "send_email")
                => /\ RecordOf(users', task[t].info.email).code = task[t].code
                   /\ RecordOf(users', task[t].info.email).code_date = task[t].code_date
          /\ (task[t].pc = "send_email" /\ Answers /\ last'.seen.mailer = "Err")
                => /\ users' = users
                   /\ RecordOf(users', last'.info.email).code = last'.seen.code
          /\ ( /\ LoginRightAfterIssue(t)
               /\ last.seen.mailer = "Err"
               /\ Answers
               /\ unwrap(last'.seen.now)
                     < IssuedAt(unwrap(last'.seen.existing)) + SixtySeconds )
                => last'.status = 200 ]_vars

\* C14 witness: the code of the last /requestcode was not delivered, and the
\* /login that follows with that code has passed the test of the code.
C14_Witness ==
    /\ LoginRightAfterIssue("t1")
    /\ last.seen.mailer = "Err"
    /\ task["t1"].pc = "login_update"
    /\ RecordOf(users, last.info.email).code = last.seen.code

\* A /login with the code and for the address of the /login answered 200
\* just before: task t is running it.
LoginAgain(t) ==
    /\ last.op = "login"
    /\ last.status = 200
    /\ task[t].pc \in {"login_check", "login_update"}
    /\ SameAddress(task[t].info.email, last.info.email)
    /\ task[t].info.code = last.info.code

\* C15: a successful authenticate does not use the code up: with no
\* issue_code in between, the next authenticate with the same code before
\* code_issued_at + 60s succeeds again, and its token is a new one that
\* replaces the token before in the store.
C15_CodeNotConsumed ==
    [][ \A t \in Tasks :
          ( /\ LoginAgain(t)
            /\ Answers
            /\ unwrap(last'.seen.now)
                  < IssuedAt(unwrap(last'.seen.existing)) + SixtySeconds )
          => /\ last'.status = 200
             /\ last'.body.session_id # last.body.session_id
             /\ RecordOf(users, last.info.email).session_id = Some(last.body.session_id)
             /\ RecordOf(users', last.info.email).session_id
                   = Some(last'.body.session_id) ]_vars

\* C15 witness: the code was accepted once, and a second /login with it has
\* passed the test of the code.
C15_Witness ==
    /\ LoginAgain("t1")
    /\ task["t1"].pc = "login_update"
    /\ task["t1"].some_existing.session_id = Some(last.body.session_id)

\* Task t is about to store the token of a /login that ran concurrently with
\* the /login answered just before: both looked the identity up before
\* either stored its token.
SecondOfTwoLogins(t) ==
    /\ task[t].pc = "login_update"
    /\ last.op = "login"
    /\ last.status = 200
    /\ SameAddress(task[t].info.email, last.info.email)
    /\ task[t].some_existing.session_id = unwrap(last.seen.existing).session_id

\* What two concurrent authenticate calls leave behind, the request check
\* apart: both returned a token, the two differ, and the store holds the one
\* written last.
LastWriterWins ==
    /\ last.body.session_id # ""
    /\ last'.body.session_id # ""
    /\ last'.body.session_id # last.body.session_id
    /\ RecordOf(users', last.info.email).session_id = Some(last'.body.session_id)

\* C16 (as claimed): when two authenticate calls for one identity with the
\* valid code run concurrently, both return a token, the stored session_token
\* is the one written last, and the request check admits that token and
\* rejects the other.
C16_ConcurrentAuthenticate ==
    [][ \A t \in Tasks :
          (SecondOfTwoLogins(t) /\ Answers) =>
             /\ LastWriterWins
             /\ check_authentication(Some(last'.body.session_id),
                                     RecordOf(users', last.info.email).session_id)
             /\ ~check_authentication(Some(last.body.session_id),
                                      RecordOf(users', last.info.email).session_id) ]_vars

\* The store holds a record of the address with this code and time stamp.
Holds(coll, email, code, code_date) ==
    \E i \in DOMAIN coll :
        /\ SameAddress(coll[i].email, email)
        /\ coll[i].code = code
        /\ coll[i].code_date = code_date

\* C17: in every issue_code execution the hand-off of (email, code) to the
\* notification collaborator comes after the store mutation of that call: a
\* handler reaches the hand-off only through its insert or update, which
\* stores the code it goes on to hand off, and what is handed off is the
\* address of the request and that code.
C17_HandOffAfterCommit ==
    [][ /\ \A t \in Tasks :
             /\ (task'[t].pc = "send_email" /\ task[t].pc # "send_email")
                   => /\ task[t].pc = "send_code_write"
                      /\ task'[t].code = task[t].code
                      /\ task'[t].info = task[t].info
                      /\ Holds(users', task[t].info.email, task[t].code, task[t].code_date)
             /\ (task[t].pc = "send_email" /\ task'[t].pc # "send_email")
                   => /\ Answers
                      /\ last'.op = "send_code"
                      /\ last'.seen.to = task[t].info.email
                      /\ last'.seen.code = task[t].code
        /\ (Answers /\ last'.op = "send_code")
             => \E t \in Tasks : task[t].pc = "send_email" /\ task'[t].pc = "idle" ]_vars

\* C17 witness: a code was handed off and is in the store, while another
\* issue_code for the address, with another code, has not yet stored its own.
C17_Witness ==
    /\ last.op = "send_code"
    /\ \E i \in DOMAIN users :
          SameAddress(users[i].email, last.info.email) /\ users[i].code = last.seen.code
    /\ \E t \in Tasks :
          /\ task[t].pc = "send_code_write"
          /\ SameAddress(task[t].info.email, last.info.email)
          /\ task[t].code # last.seen.code

\* C18: the stored pair (current_code, code_issued_at) of a record is always
\* the pair of one issue_code call: whenever the code or the time stamp of a
\* record changes, or a record is added, both are those of the one handler
\* that takes its store mutation in that step.
C18_CodeAndDateFromOneCall ==
    [][ \A i \in DOMAIN users' :
          ( \/ i \notin DOMAIN users
            \/ users'[i].code # users[i].code
            \/ users'[i].code_date # users[i].code_date )
          => \E t \in Tasks :
                /\ task[t].pc = "send_code_write"
                /\ task'[t].pc = "send_email"
                /\ users'[i].code = task[t].code
                /\ users'[i].code_date = task[t].code_date ]_vars

\* C18 witness: two issue_code calls for one address are in flight with
\* different codes and time stamps; one has stored its pair, the record holds
\* that pair whole, and the other is about to overwrite it.
C18_Witness ==
    \E t, u \in Tasks :
        /\ task[t].pc = "send_email"
        /\ task[u].pc = "send_code_write"
        /\ is_some(task[u].existing)
        /\ SameAddress(task[t].info.email, task[u].info.email)
        /\ task[u].code # task[t].code
        /\ LET r == RecordOf(users, task[t].info.email)
           IN  /\ r.code = task[t].code
               /\ r.code_date # task[u].code_date
               /\ r.code_date # unwrap(task[u].existing).code_date

\* C19 (as claimed): authenticate writes a session token only while the code
\* stored for the identity still equals the code submitted, in every
\* interleaving with a concurrent issue_code.
C19_TokenOnlyForCurrentCode ==
    [][ \A t \in Tasks :
          (task[t].pc = "login_update" /\ Answers /\ users' # users)
             => RecordOf(users, task[t].info.email).code = task[t].info.code ]_vars

\* A returned user view carries no one-time code, no issuance time and no
\* session token, and no field beyond those of User.
CarriesNoSecret(view) ==
    /\ DOMAIN view = UserFields
    /\ view.session_id = None
    /\ view.code = ""
    /\ view.code_date = ""

\* C20: no response body of /getuser or /getmembers carries an identity's
\* stored code, code issuance time or session token: the three fields are
\* empty in every user view returned, whatever the record holds.
C20_ViewsCarryNoSecret ==
    /\ (last.op = "get_user" /\ last.status = 200) => CarriesNoSecret(last.body)
    /\ last.op = "get_member_list"
          => \A i \in DOMAIN last.body : CarriesNoSecret(last.body[i])

\* C20 witness: /getuser answered 200 with the view of an identity whose
\* record holds a code, its time stamp and a session token.
C20_Witness ==
    /\ last.op = "get_user"
    /\ last.status = 200
    /\ is_some(unwrap(last.seen.existing).session_id)
    /\ unwrap(last.seen.existing).code \in Codes
    /\ last.body._id = unwrap(last.seen.existing)._id

====
